---------------------------- MODULE Spec2Model ----------------------------
(***************************************************************************)
(* One interpreter process running the scripts of important-siblings:     *)
(* myproject0/myscript.py, myproject2/myscript.py, myproject2/myclass.py  *)
(* and myproject6/scripts/myscript.py.                                     *)
(*                                                                         *)
(* A directory, a file and a search-path entry are sequences of path      *)
(* components; a dotted module name is the sequence of its parts.  A line *)
(* of standard output is a record [kind, text], text being the list of    *)
(* values the line prints.                                                 *)
(***************************************************************************)
EXTENDS Naturals, Sequences, FiniteSets

VARIABLES
    inv,        \* the invocation: [mode, target, path] (command line and environment)
    fs,         \* the files present on disk
    sysPath,    \* sys.path
    script,     \* globals of the loaded myscript module (__name__, __package__, __file__)
    myclass,    \* globals of the loaded myclass module
    pc,         \* the statement the interpreter is at
    out,        \* lines written to standard output
    err,        \* the uncaught exception reported on standard error
    exitStatus, \* the process's exit status once pc = "done"
    mc,         \* the scopes whose variable mc holds a MyClass instance
    created,    \* MyClass instances constructed so far
    calls       \* calls made by an importing program

vars == <<inv, fs, sysPath, script, myclass, pc, out, err, exitStatus, mc, created, calls>>

-----------------------------------------------------------------------------
(* Bounds *)

MaxExtra == 1   \* search-path entries added between sys.path[0] and the defaults
MaxCalls == 3   \* calls an importing program makes after its import

-----------------------------------------------------------------------------
(* The files *)

Repo == <<"repo">>
StdLib == <<"lib">>

Script0 == <<"repo", "myproject0", "myscript.py">>
Script2 == <<"repo", "myproject2", "myscript.py">>
Script6 == <<"repo", "myproject6", "scripts", "myscript.py">>
Class0 == <<"repo", "myproject0", "myclass.py">>
Class2 == <<"repo", "myproject2", "myclass.py">>
Class6 == <<"repo", "myproject6", "classes", "myclass.py">>

ScriptFiles == {Script0, Script2, Script6}

\* the files under src/
SrcFiles == {Script0, Script2, Class2, Script6}
\* the sibling class files the scripts of myproject0 and myproject6 import
SiblingFiles == {Class0, Class6}
RepoFiles == SrcFiles \cup SiblingFiles

\* the directories of the repository
Dirs == {Repo,
         <<"repo", "myproject0">>,
         <<"repo", "myproject2">>,
         <<"repo", "myproject6">>,
         <<"repo", "myproject6", "scripts">>,
         <<"repo", "myproject6", "classes">>}

Main == <<"__main__">>

\* the dotted names a run is started or imported under
ModuleNames == {<<"myscript">>, <<"myclass">>,
                <<"myproject0", "myscript">>,
                <<"myproject2", "myscript">>,
                <<"myproject2", "myclass">>,
                <<"myproject6", "scripts", "myscript">>}

PyFile(name) == IF name = "myscript" THEN "myscript.py"
                ELSE IF name = "myclass" THEN "myclass.py"
                ELSE "-"

-----------------------------------------------------------------------------
(* Paths *)

Front(s) == SubSeq(s, 1, Len(s) - 1)

\* os.path.dirname
Dirname(file) == Front(file)

\* os.path.join
Join(a, b) == a \o b

RECURSIVE Norm(_, _)
Norm(comps, acc) ==
    IF comps = <<>> THEN acc
    ELSE IF Head(comps) = ".."
         THEN Norm(Tail(comps), IF acc = <<>> THEN acc ELSE Front(acc))
         ELSE Norm(Tail(comps), Append(acc, Head(comps)))

\* the directory an entry of sys.path names
Resolve(entry) == Norm(entry, <<>>)

IsPrefix(a, b) == Len(a) <= Len(b) /\ SubSeq(b, 1, Len(a)) = a

IsDir(d, files) == \E f \in files : Len(d) < Len(f) /\ IsPrefix(d, f)

-----------------------------------------------------------------------------
(* The import system *)

NotFound == [kind |-> "none", file |-> <<>>, path |-> <<>>]

\* one name looked up along a list of entries: the first module file wins;
\* directories of that name are the portions of a namespace package
RECURSIVE Scan(_, _, _, _)
Scan(name, entries, portions, files) ==
    IF entries = <<>>
    THEN IF portions = <<>> THEN NotFound
         ELSE [kind |-> "ns", file |-> <<>>, path |-> portions]
    ELSE LET base == Resolve(Head(entries)) IN
         IF Append(base, PyFile(name)) \in files
         THEN [kind |-> "mod", file |-> Append(base, PyFile(name)), path |-> <<>>]
         ELSE IF IsDir(Append(base, name), files)
              THEN Scan(name, Tail(entries), Append(portions, Append(base, name)), files)
              ELSE Scan(name, Tail(entries), portions, files)

\* a dotted name: each part is looked up in the __path__ of the part before
RECURSIVE FindModule(_, _, _)
FindModule(dotted, path, files) ==
    LET r == Scan(Head(dotted), path, <<>>, files) IN
    IF Len(dotted) = 1
    THEN IF r.kind = "mod" THEN r ELSE NotFound
    ELSE IF r.kind = "ns" THEN FindModule(Tail(dotted), r.path, files)
         ELSE NotFound

\* the name a failed import reports: the parts up to the first one not found
RECURSIVE MissingName(_, _, _)
MissingName(dotted, path, files) ==
    LET r == Scan(Head(dotted), path, <<>>, files) IN
    IF Len(dotted) > 1 /\ r.kind = "ns"
    THEN <<Head(dotted)>> \o MissingName(Tail(dotted), r.path, files)
    ELSE <<Head(dotted)>>

-----------------------------------------------------------------------------
(* Module globals *)

NonePkg == [none |-> TRUE, name |-> <<>>]
Pkg(dotted) == [none |-> FALSE, name |-> dotted]

NoModule == [loaded |-> FALSE, name |-> <<>>, package |-> NonePkg, file |-> <<>>]
Module(name, package, file) ==
    [loaded |-> TRUE, name |-> name, package |-> package, file |-> file]

\* __package__ of a module found under a dotted name
Parent(dotted) == Pkg(Front(dotted))

\* Format with a missing package printed as the empty string
Format_OrEmpty(package) == IF package.none THEN <<>> ELSE package.name

\* str() of __package__ inside an f-string
Format(package) == IF package.none THEN <<"None">> ELSE package.name


-----------------------------------------------------------------------------
(* Standard output *)

Line(kind, text) == [kind |-> kind, text |-> text]

ScriptHeader == Line("header", << <<"myscript attributes...">> >>)
ClassHeader == Line("header", << <<"myclass attributes...">> >>)
ScriptDirect == Line("direct", << <<"myscript.py called directly">> >>)
ClassDirect == Line("direct", << <<"myclass.py called directly">> >>)
Blank == Line("blank", <<>>)

\* __init__ without its print
InitLines_Silent == <<>>

\* MyClass.__init__
InitLines == << Line("init", << <<"MyClass initialized">> >>) >>

\* dump with a misspelt header
ClassBlock_NoHeader(g) ==
    << Line("header", << <<"myclass attributes">> >>),
       Line("module", <<g.name>>),
       Line("package", <<Format(g.package)>>),
       Line("file", <<g.file>>),
       Blank >>

\* dump that ends its block with a blank line on its first call only
ClassBlock_BlankOnce(g) ==
    << ClassHeader,
       Line("module", <<g.name>>),
       Line("package", <<Format(g.package)>>),
       Line("file", <<g.file>>) >>
    \o IF \E i \in 1..Len(out) : out[i] = ClassHeader THEN <<>> ELSE <<Blank>>

\* dump that prints sys.path as main() does
ClassBlock_WithPath(g) ==
    << ClassHeader,
       Line("module", <<g.name>>),
       Line("package", <<Format(g.package)>>),
       Line("file", <<g.file>>),
       Line("syspath", sysPath),
       Blank >>

\* MyClass.dump
ClassBlock(g) ==
    << ClassHeader,
       Line("module", <<g.name>>),
       Line("package", <<Format(g.package)>>),
       Line("file", <<g.file>>),
       Blank >>

\* the prints of main()
ScriptBlock(g, path) ==
    << ScriptHeader,
       Line("module", <<g.name>>),
       Line("package", <<Format(g.package)>>),
       Line("file", <<g.file>>),
       Line("syspath", path),
       Blank >>

-----------------------------------------------------------------------------
(* The scripts' top level *)

\* every script importing from the top-level name
ImportName_Unqualified(file) == <<"myclass">>

\* the name a script imports MyClass from
ImportName(file) == IF file = Script2 THEN <<"myproject2", "myclass">>
                    ELSE <<"myclass">>

\* the entry myproject6/scripts/myscript.py adds
ClassesEntry(file) == Join(Dirname(file), <<"..", "classes">>)

\* no script touching sys.path
TopLevelPath_NoAppend(file, path) == path

\* the classes entry put first: sys.path.insert(0, ...)
TopLevelPath_Front(file, path) ==
    IF file = Script6 THEN <<ClassesEntry(file)>> \o path ELSE path

\* sys.path once the statements before the import have run
TopLevelPath(file, path) ==
    IF file = Script6 THEN Append(path, ClassesEntry(file)) ELSE path

\* the first statement of a script that has an effect
FirstStatement(file) == IF file = Script6 THEN "s_append" ELSE "s_import"

\* the uncaught exception of a failed import
ModuleNotFound(dotted) == << [type |-> "ModuleNotFoundError", name |-> dotted] >>

\* the interpreter's message when python -m finds no such module
NoModuleNamed(dotted) == << [type |-> "No module named", name |-> dotted] >>

-----------------------------------------------------------------------------
(* Invocations *)

ExtraDirs == {Repo,
              <<"repo", "myproject0">>,
              <<"repo", "myproject2">>,
              <<"repo", "myproject6", "classes">>}

RECURSIVE SeqsUpTo(_, _)
SeqsUpTo(S, n) ==
    IF n = 0 THEN {<<>>}
    ELSE LET shorter == SeqsUpTo(S, n - 1) IN
         shorter \cup {Append(s, x) : s \in shorter, x \in S}

Extras == SeqsUpTo(ExtraDirs, MaxExtra)

\* python <file>: sys.path[0] is the directory of the file
FileRuns(files) ==
    {[mode |-> "file", target |-> f, path |-> <<Dirname(f)>> \o e \o <<StdLib>>] :
        f \in files, e \in Extras}

\* python -m <name>, or an import of <name>: sys.path[0] is the working directory
NamedRuns ==
    {[mode |-> m, target |-> n, path |-> <<d>> \o e \o <<StdLib>>] :
        m \in {"dashm", "import"}, n \in ModuleNames, d \in Dirs, e \in Extras}

Init ==
    /\ fs \in {SrcFiles \cup S : S \in SUBSET SiblingFiles}
    /\ inv \in FileRuns(fs) \cup NamedRuns
    /\ sysPath = inv.path
    /\ script = NoModule
    /\ myclass = NoModule
    /\ pc = "launch"
    /\ out = <<>>
    /\ err = <<>>
    /\ exitStatus = 0
    /\ mc = {}
    /\ created = 0
    /\ calls = 0

-----------------------------------------------------------------------------
(* Steps of the run *)

\* the interpreter loads the target and starts its top level
Launch ==
    /\ pc = "launch"
    /\ LET r == IF inv.mode = "file"
                THEN [kind |-> "mod", file |-> inv.target, path |-> <<>>]
                ELSE FindModule(inv.target, sysPath, fs)
           name == IF inv.mode = "import" THEN inv.target ELSE Main
           package == IF inv.mode = "file" THEN NonePkg ELSE Parent(inv.target)
       IN  IF r.kind # "mod"
           THEN /\ err' = IF inv.mode = "dashm"
                           THEN NoModuleNamed(inv.target)
                           ELSE ModuleNotFound(MissingName(inv.target, sysPath, fs))
                /\ exitStatus' = 1
                /\ pc' = "done"
                /\ UNCHANGED <<script, myclass>>
           ELSE IF r.file \in ScriptFiles
                THEN /\ script' = Module(name, package, r.file)
                     /\ pc' = FirstStatement(r.file)
                     /\ UNCHANGED <<myclass, err, exitStatus>>
                ELSE /\ myclass' = Module(name, package, r.file)
                     /\ pc' = "c_guard"
                     /\ UNCHANGED <<script, err, exitStatus>>
    /\ UNCHANGED <<inv, fs, sysPath, out, mc, created, calls>>

\* myproject6/scripts/myscript.py: sys.path.append(...)
PathAppend ==
    /\ pc = "s_append"
    /\ sysPath' = TopLevelPath(script.file, sysPath)
    /\ pc' = "s_import"
    /\ UNCHANGED <<inv, fs, script, myclass, out, err, exitStatus, mc, created, calls>>

\* the import inside try/except ImportError: pass
Import_Caught ==
    /\ pc = "s_import"
    /\ LET name == ImportName(script.file)
           r == FindModule(name, sysPath, fs)
       IN  IF r.kind = "mod"
           THEN /\ myclass' = Module(name, Parent(name), r.file)
                /\ pc' = "c_guard"
           ELSE /\ myclass' = myclass
                /\ pc' = "s_guard"
    /\ UNCHANGED <<inv, fs, sysPath, script, out, err, exitStatus, mc, created, calls>>

\* from ... import MyClass
Import ==
    /\ pc = "s_import"
    /\ LET name == ImportName(script.file)
           r == FindModule(name, sysPath, fs)
       IN  IF r.kind = "mod"
           THEN /\ myclass' = Module(name, Parent(name), r.file)
                /\ pc' = "c_guard"
                /\ UNCHANGED <<err, exitStatus>>
           ELSE /\ err' = ModuleNotFound(MissingName(name, sysPath, fs))
                /\ exitStatus' = 1
                /\ pc' = "done"
                /\ UNCHANGED myclass
    /\ UNCHANGED <<inv, fs, sysPath, script, out, mc, created, calls>>

\* myclass.py: if __name__ == "__main__"
ClassGuard ==
    /\ pc = "c_guard"
    /\ IF myclass.name = Main
       THEN /\ out' = Append(out, ClassDirect)
            /\ pc' = "c_new"
       ELSE /\ out' = out
            /\ pc' = IF script.loaded THEN "s_guard" ELSE "idle"
    /\ UNCHANGED <<inv, fs, sysPath, script, myclass, err, exitStatus, mc, created, calls>>

\* myscript.py without the test of __name__
ScriptGuard_Always ==
    /\ pc = "s_guard"
    /\ out' = Append(out, ScriptDirect)
    /\ pc' = "m_block"
    /\ UNCHANGED <<inv, fs, sysPath, script, myclass, err, exitStatus, mc, created, calls>>

\* myscript.py: if __name__ == "__main__"
ScriptGuard ==
    /\ pc = "s_guard"
    /\ IF script.name = Main
       THEN /\ out' = Append(out, ScriptDirect)
            /\ pc' = "m_block"
       ELSE /\ out' = out
            /\ pc' = "idle"
    /\ UNCHANGED <<inv, fs, sysPath, script, myclass, err, exitStatus, mc, created, calls>>

\* main(): the prints
MainBlock ==
    /\ pc = "m_block"
    /\ out' = out \o ScriptBlock(script, sysPath)
    /\ pc' = "m_new"
    /\ UNCHANGED <<inv, fs, sysPath, script, myclass, err, exitStatus, mc, created, calls>>

\* mc = MyClass(), in main() or at the top level of myclass.py
New ==
    /\ pc \in {"m_new", "c_new"}
    /\ out' = out \o InitLines
    /\ created' = created + 1
    /\ mc' = mc \cup {IF pc = "m_new" THEN "main" ELSE "top"}
    /\ pc' = IF pc = "m_new" THEN "m_dump" ELSE "c_dump"
    /\ UNCHANGED <<inv, fs, sysPath, script, myclass, err, exitStatus, calls>>

\* mc.dump(), the last statement of main() and of myclass.py
Dump ==
    /\ pc \in {"m_dump", "c_dump"}
    /\ (IF pc = "m_dump" THEN "main" ELSE "top") \in mc
    /\ out' = out \o ClassBlock(myclass)
    /\ mc' = mc \ {"main"}
    /\ pc' = IF pc = "m_dump" /\ script.name # Main THEN "idle" ELSE "done"
    /\ UNCHANGED <<inv, fs, sysPath, script, myclass, err, exitStatus, created, calls>>

\* an importing program calls main()
DriverMain ==
    /\ pc = "idle"
    /\ script.loaded
    /\ calls < MaxCalls
    /\ calls' = calls + 1
    /\ pc' = "m_block"
    /\ UNCHANGED <<inv, fs, sysPath, script, myclass, out, err, exitStatus, mc, created>>

\* an importing program constructs a MyClass
DriverNew ==
    /\ pc = "idle"
    /\ myclass.loaded
    /\ calls < MaxCalls
    /\ calls' = calls + 1
    /\ out' = out \o InitLines
    /\ created' = created + 1
    /\ mc' = mc \cup {"top"}
    /\ UNCHANGED <<inv, fs, sysPath, script, myclass, pc, err, exitStatus>>

\* an importing program calls dump() on the instance it holds
DriverDump ==
    /\ pc = "idle"
    /\ "top" \in mc
    /\ calls < MaxCalls
    /\ calls' = calls + 1
    /\ out' = out \o ClassBlock(myclass)
    /\ UNCHANGED <<inv, fs, sysPath, script, myclass, pc, err, exitStatus, mc, created>>

\* the importing program ends
DriverExit ==
    /\ pc = "idle"
    /\ pc' = "done"
    /\ UNCHANGED <<inv, fs, sysPath, script, myclass, out, err, exitStatus, mc, created, calls>>

Next ==
    \/ Launch
    \/ PathAppend
    \/ Import
    \/ ClassGuard
    \/ ScriptGuard
    \/ MainBlock
    \/ New
    \/ Dump
    \/ DriverMain
    \/ DriverNew
    \/ DriverDump
    \/ DriverExit

Spec == Init /\ [][Next]_vars

-----------------------------------------------------------------------------
(* A whole direct run of an entry script, as a function of its start *)

\* the globals of the myclass module a script's import binds
Imported(file, path, files) ==
    LET name == ImportName(file) IN
    Module(name, Parent(name), FindModule(name, path, files).file)

\* whether the import of a script started with sys.path = path resolves
Resolves(file, path, files) ==
    FindModule(ImportName(file), TopLevelPath(file, path), files).kind = "mod"

\* standard output of a script run as __main__ whose import resolves
EntryOutput(g, path, files) ==
    LET p == TopLevelPath(g.file, path) IN
    <<ScriptDirect>> \o ScriptBlock(g, p) \o InitLines
        \o ClassBlock(Imported(g.file, p, files))

-----------------------------------------------------------------------------
(* Vocabulary of the properties *)

InitLine == Line("init", << <<"MyClass initialized">> >>)

Positions(line) == {i \in 1..Len(out) : out[i] = line}
Count(line) == Cardinality(Positions(line))

Kinds(lines) == [i \in 1..Len(lines) |-> lines[i].kind]

\* the values the sys.path lines of an output print
PrintedPaths(lines) == {lines[i].text : i \in {k \in 1..Len(lines) : lines[k].kind = "syspath"}}

\* the script block and, later, the class block
BothBlocksInOrder ==
    \E i, j \in 1..Len(out) : i < j /\ out[i] = ScriptHeader /\ out[j] = ClassHeader

Done == pc = "done"

\* an entry script executed directly: python <file> or python -m <name>
EntryRun == inv.mode \in {"file", "dashm"} /\ script.loaded

\* python <script> with nothing added to the search path
DefaultRun ==
    /\ inv.mode = "file"
    /\ inv.target \in ScriptFiles
    /\ inv.path = <<Dirname(inv.target), StdLib>>
    /\ fs = RepoFiles

\* the import statement has run and found no module
ImportFailed ==
    /\ script.loaded
    /\ pc \notin {"s_append", "s_import"}
    /\ FindModule(ImportName(script.file), sysPath, fs).kind # "mod"

-----------------------------------------------------------------------------
(* C1 *)

\* C1 as stated: every finished direct run of an entry script, whatever the
\* search path, has printed "myscript attributes..." and later
\* "myclass attributes...".
C1_Original == (Done /\ EntryRun) => BothBlocksInOrder

\* C1 amended: every finished direct run of an entry script in which the
\* import of MyClass resolved has printed "myscript attributes..." and later
\* "myclass attributes...".
C1_Amended == (Done /\ EntryRun /\ myclass.loaded) => BothBlocksInOrder

C1_Witness == Done /\ EntryRun /\ myclass.loaded /\ Len(inv.path) > 2 /\ BothBlocksInOrder

-----------------------------------------------------------------------------
(* C2 *)

\* C2 as stated: each of the three entry scripts, run by file name with the
\* default search path, resolves its import, exits with status 0 and prints
\* the script block and then the class block.
C2_Original ==
    (Done /\ DefaultRun) => (myclass.loaded /\ exitStatus = 0 /\ BothBlocksInOrder)

\* C2 amended: run by file name with the default search path, the scripts of
\* myproject0 and myproject6 resolve their import, exit with status 0 and
\* print the script block and then the class block; the script of myproject2
\* ends with an uncaught ModuleNotFoundError naming myproject2, status 1 and
\* no output.
C2_Amended ==
    (Done /\ DefaultRun) =>
        IF inv.target # Script2
        THEN myclass.loaded /\ exitStatus = 0 /\ err = <<>> /\ BothBlocksInOrder
        ELSE /\ ~myclass.loaded
             /\ exitStatus = 1
             /\ err = ModuleNotFound(<<"myproject2">>)
             /\ out = <<>>

C2_Witness == Done /\ DefaultRun /\ inv.target = Script2 /\ exitStatus = 1

-----------------------------------------------------------------------------
(* C3 *)

\* C3: once the import statement has found no module for MyClass, the run is
\* over with exit status 1 and the uncaught ModuleNotFoundError naming the
\* part of the imported name that was not found, and nothing was printed or
\* constructed.
C3_ImportFailure ==
    ImportFailed =>
        /\ Done
        /\ exitStatus = 1
        /\ err = ModuleNotFound(MissingName(ImportName(script.file), sysPath, fs))
        /\ IsPrefix(err[1].name, ImportName(script.file))
        /\ out = <<>>
        /\ created = 0
        /\ ~myclass.loaded

C3_Witness == ImportFailed /\ Done /\ err # <<>> /\ inv.mode = "file"

-----------------------------------------------------------------------------
(* C4 *)

ReportKinds == {"header", "module", "package", "file", "syspath"}

\* C4 as stated: every construction has added exactly one creation notice,
\* and no line of any attribute report precedes the first creation notice.
C4_Original ==
    /\ Count(InitLine) = created
    /\ \A i \in 1..Len(out) :
          out[i].kind \in ReportKinds => \E j \in 1..(i - 1) : out[j] = InitLine

\* C4 amended: every construction has added exactly one creation notice, and
\* no line of a MyClass.dump block precedes the first creation notice; the
\* block main() prints comes before the notice of the instance main() creates.
C4_Amended ==
    /\ Count(InitLine) = created
    /\ \A i \in Positions(ClassHeader) : \E j \in 1..(i - 1) : out[j] = InitLine
    /\ (EntryRun /\ created > 0) =>
          \E i \in Positions(ScriptHeader) : \A j \in Positions(InitLine) : i < j

C4_Witness ==
    /\ EntryRun
    /\ created = 1
    /\ Count(ClassHeader) = 1
    /\ \E i \in Positions(ScriptHeader) : \E j \in Positions(InitLine) : i < j

-----------------------------------------------------------------------------
(* C5 *)

\* C5: all the blocks dump() has printed in one process are complete and
\* identical line for line, also when it is called again on one instance.
C5_DumpIdempotent ==
    \A i, j \in Positions(ClassHeader) :
        /\ i + 4 <= Len(out)
        /\ j + 4 <= Len(out)
        /\ SubSeq(out, i, i + 4) = SubSeq(out, j, j + 4)
        /\ SubSeq(out, i, i + 4) = ClassBlock(myclass)

C5_Witness == created = 1 /\ Count(ClassHeader) = 2 /\ Count(ScriptHeader) = 0

-----------------------------------------------------------------------------
(* C6 *)

\* C6: every block is header, Module, Package, File Path in that order; the
\* block of main() continues with the sys.path line and a blank line, the
\* block of dump() with the blank line only; a sys.path line occurs nowhere
\* else.
C6_BlockOrder ==
    /\ \A i \in 1..Len(out) :
          out[i].kind = "header" =>
              /\ i + 4 <= Len(out)
              /\ out[i + 1].kind = "module"
              /\ out[i + 2].kind = "package"
              /\ out[i + 3].kind = "file"
              /\ IF out[i] = ScriptHeader
                 THEN /\ out[i + 4].kind = "syspath"
                      /\ i + 5 <= Len(out)
                      /\ out[i + 5] = Blank
                 ELSE /\ out[i] = ClassHeader
                      /\ out[i + 4] = Blank
    /\ \A k \in 1..Len(out) :
          out[k].kind = "syspath" => (k > 4 /\ out[k - 4] = ScriptHeader)
    /\ \A k \in 1..Len(out) :
          out[k].kind \in {"module", "package", "file"} =>
              \E i \in (k - 3)..(k - 1) : i >= 1 /\ out[i].kind = "header"

C6_Witness == Done /\ BothBlocksInOrder /\ Count(ClassHeader) = 1

-----------------------------------------------------------------------------
(* C7 *)

\* the globals a block reports: those of the script for the block of main(),
\* those of the myclass module for the block of dump()
Unit(i) == IF out[i] = ScriptHeader THEN script ELSE myclass

\* the dotted name a unit was loaded under
LoadedAs(g) == IF g.name = Main THEN inv.target ELSE g.name

\* a unit loaded as part of a package
InPackage(g) == ~(g.name = Main /\ inv.mode = "file") /\ Len(LoadedAs(g)) > 1

\* C7 as stated: the Package line of a block is empty when the unit was not
\* loaded as part of a package, and non-empty only when it was.
C7_Original ==
    \A i \in 1..Len(out) :
        out[i].kind = "header" =>
            (out[i + 2].text = << <<>> >>) <=> ~InPackage(Unit(i))

\* C7 amended: the Package line of a block reads None when the unit is the
\* file the interpreter was started on, is empty when the unit was imported
\* or started with -m under a top-level name, and is the package name when
\* the unit was loaded as part of a package.
C7_Amended ==
    \A i \in 1..Len(out) :
        out[i].kind = "header" =>
            LET g == Unit(i) IN
            out[i + 2].text =
                << IF g.name = Main /\ inv.mode = "file" THEN <<"None">>
                   ELSE IF InPackage(g) THEN Front(LoadedAs(g))
                   ELSE <<>> >>

C7_Witness ==
    /\ Done
    /\ inv.mode = "file"
    /\ \E i \in Positions(ScriptHeader) : out[i + 2].text = << <<"None">> >>
    /\ \E i \in Positions(ClassHeader) : out[i + 2].text = << <<>> >>

-----------------------------------------------------------------------------
(* C8 *)

\* the globals of script f run as this run's script is
As(f) == Module(script.name, script.package, f)

\* C8 as stated: any entry script whose import resolves from this run's
\* initial search path prints the same kinds of lines in the same order as
\* this run, and the same sys.path value.
C8_Original ==
    (Done /\ EntryRun /\ myclass.loaded) =>
        \A f \in ScriptFiles :
            Resolves(f, inv.path, fs) =>
                /\ Kinds(EntryOutput(As(f), inv.path, fs)) = Kinds(out)
                /\ PrintedPaths(EntryOutput(As(f), inv.path, fs)) = PrintedPaths(out)

\* C8 amended: any entry script whose import resolves from this run's
\* initial search path prints the same kinds of lines in the same order as
\* this run; the sys.path value printed is the initial search path for the
\* scripts of myproject0 and myproject2 and the initial search path followed
\* by the classes entry for the script of myproject6.
C8_Amended ==
    (Done /\ EntryRun /\ myclass.loaded) =>
        /\ out = EntryOutput(script, inv.path, fs)
        /\ \A f \in ScriptFiles :
              Resolves(f, inv.path, fs) =>
                  /\ Kinds(EntryOutput(As(f), inv.path, fs)) = Kinds(out)
                  /\ PrintedPaths(EntryOutput(As(f), inv.path, fs)) =
                        { IF f = Script6
                          THEN Append(inv.path,
                                      <<"repo", "myproject6", "scripts", "..", "classes">>)
                          ELSE inv.path }

C8_Witness ==
    /\ Done /\ EntryRun /\ myclass.loaded
    /\ script.file = Script0
    /\ Resolves(Script2, inv.path, fs)
    /\ Resolves(Script6, inv.path, fs)

-----------------------------------------------------------------------------
(* C9 *)

\* the script of myproject6 has run its sys.path.append
Appended == script.loaded /\ script.file = Script6 /\ pc # "s_append"

\* C9: sys.path is the initial search path, except that once the script of
\* myproject6 has run its append it is the initial search path followed by
\* one entry naming the classes directory, also after a failed import; the
\* myclass module that script binds is the one the initial search path
\* finds, and the one of the classes directory only when there is none.
C9_SearchPathFrame ==
    /\ sysPath = IF Appended
                 THEN Append(inv.path, <<"repo", "myproject6", "scripts", "..", "classes">>)
                 ELSE inv.path
    /\ Appended => Resolve(sysPath[Len(sysPath)]) = Dirname(Class6)
    /\ (Appended /\ myclass.loaded) =>
          LET r == FindModule(<<"myclass">>, inv.path, fs) IN
          myclass.file = IF r.kind = "mod" THEN r.file ELSE Class6
    /\ (Appended /\ pc # "s_import" /\ ~myclass.loaded) => (Done /\ exitStatus = 1)

C9_Witness ==
    /\ Appended
    /\ Done
    /\ Class6 \in fs
    /\ myclass.loaded
    /\ myclass.file # Class6
    /\ Len(sysPath) = Len(inv.path) + 1

-----------------------------------------------------------------------------
(* C10 *)

\* C10: a finished direct run of an entry script whose import resolved has
\* printed "myscript.py called directly" first, never "myclass.py called
\* directly", and one script block, one creation notice and one class block;
\* an import of a module prints and constructs nothing until the importing
\* program makes a call; a finished direct run of myclass.py has printed
\* "myclass.py called directly", the creation notice and one class block.
C10_MainGuards ==
    /\ (Done /\ EntryRun /\ myclass.loaded) =>
          /\ out[1] = ScriptDirect
          /\ Count(ScriptDirect) = 1
          /\ Count(ClassDirect) = 0
          /\ Count(ScriptHeader) = 1
          /\ Count(InitLine) = 1
          /\ Count(ClassHeader) = 1
          /\ created = 1
    /\ (inv.mode = "import" /\ calls = 0) => (out = <<>> /\ created = 0)
    /\ (Done /\ inv.mode # "import" /\ ~script.loaded /\ myclass.loaded) =>
          /\ out = <<ClassDirect>> \o InitLines \o ClassBlock(myclass)
          /\ created = 1

C10_Witness == Done /\ EntryRun /\ myclass.loaded /\ exitStatus = 0 /\ Len(out) = 13

=============================================================================
